---- MODULE Spec2Model ----
(***************************************************************************)
(* Sentinel: the human-approval gate of the rollback card and the canvas   *)
(* that displays the components the decision-maker renders.                *)
(*                                                                         *)
(* A gate is one mounted RollbackApprovalCard: its React state is the pair *)
(* (status, showConfirm).  The canvas shows the rendered component of one  *)
(* thread message at a time, so at most one card is mounted; timeouts of   *)
(* cards that were unmounted stay scheduled but reach no instance.         *)
(*                                                                         *)
(* Message indices are 1-based here (0-based in the source) and 0 stands   *)
(* for the source's null selection.                                        *)
(***************************************************************************)
EXTENDS Naturals, Integers, Sequences, FiniteSets, TLC

\* ---- bounds -----------------------------------------------------------
MaxMsgs == 2      \* messages the thread receives
MaxOrphans == 1   \* timeouts of unmounted cards that may be outstanding
MaxClicks == 2    \* confirm clicks one card handles (only a cap)
MaxOver == 5      \* how far outside its declared range a confidence is tried
MaxEvents == 3    \* events a timeline receives
MaxTime == 3      \* distinct instants the timestamps of the events take
MaxHours == 1     \* the longest look-back, in hours, a caller asks for
MaxSteps == 3     \* steps of a runbook
MaxRuns == 3      \* run timeouts of a runbook that may be outstanding
MaxTicks == 27    \* entries one pod streams after its first 25
MaxLine == 1      \* the highest line index the user clicks

\* ---- values -----------------------------------------------------------
\* keys of the riskConfig table
riskConfig == {"low", "medium", "high"}

\* what may arrive in the riskLevel prop: a key, nothing yet, or a string
\* outside the table
RiskInputs == riskConfig \cup {"undefined", "critical"}

\* the props of a card that its behaviour depends on; service is TRUE when
\* a non-empty service name has arrived (currentVersion and targetVersion
\* are only displayed)
CardProps == [service : BOOLEAN, riskLevel : RiskInputs]

NoProps == [service |-> FALSE, riskLevel |-> "undefined"]

\* msg.renderedComponent: a card, some other registered component, or null
Rendered ==
    [component : {"RollbackApprovalCard"}, props : CardProps]
        \cup {[component |-> "ClusterTopologyMap", props |-> NoProps],
              [component |-> "null", props |-> NoProps]}

Statuses == {"pending", "approved", "rejected", "executing"}

\* variant: two entries of the tools array carry the same name
tools_DuplicateName ==
    <<"getClusterStatus", "getRecentEvents", "getClusterStatus">>

\* the names of the entries of the tools array, in order
tools == <<"getClusterStatus", "getRecentEvents", "getRollbackRecommendation">>

\* the names of the entries of the components array, in order
components ==
    <<"IncidentHeader", "IncidentOverviewPanel", "ClusterTopologyMap",
      "RootCauseTimeline", "RollbackApprovalCard", "LogStreamConsole",
      "RemediationRunbook", "GitHubDiffCard", "PostMortemReport">>

\* no tool has been invoked yet
NoToolCall ==
    [tool |-> "none",
     input |-> [params |-> FALSE, type |-> "undefined", serviceName |-> "",
                hours |-> [given |-> FALSE, value |-> 0]],
     result |-> [throws |-> FALSE]]

\* no IncidentOverviewPanel is on display
NoPanel == [rendered |-> FALSE]

\* a RootCauseTimeline whose events have not arrived: the loading placeholder
NoTimeline == [events |-> <<>>, loading |-> TRUE, hasCorrelation |-> FALSE]

\* a RemediationRunbook without steps, as it is mounted; runningStep is 0
\* for null
NoRunbook ==
    [steps |-> <<>>, completedSteps |-> {}, runningStep |-> 0, runs |-> <<>>]

\* a LogStreamConsole as it is mounted before its podName has arrived;
\* selectedLine is -1 for null and regexError is TRUE for an error message
NoConsole ==
    [podName |-> "", logs |-> <<>>, isStreaming |-> TRUE, tickers |-> 0,
     localFilter |-> "", isRegex |-> FALSE, regexError |-> FALSE,
     selectedLine |-> -1, last |-> "mount"]

VARIABLES
    messages,              \* thread.messages, each reduced to its renderedComponent
    selectedMessageIndex,  \* Canvas state, 0 for null
    status,                \* state of the mounted card
    showConfirm,           \* state of the mounted card
    timers,                \* completion timeouts the mounted card scheduled, not yet run
    orphanTimers,          \* timeouts scheduled by cards that were unmounted since, not yet run
    confirms,              \* history: confirm clicks the mounted card has handled
    executions,            \* history: times the mounted card has entered executing
    lastEvent,             \* history: the event of the last step; confirm and reject
                           \* name clicks that reached their handler, mount a render
                           \* that put a new component instance in the canvas
    registry,              \* the tools and components handed to TamboProvider
    toolCall,              \* the last tool invocation: tool, params and what it returned
    panel,                 \* the IncidentOverviewPanel on display: its confidence prop,
                           \* what the schema said of it and the number displayed
    timeline,              \* the RootCauseTimeline on display: its events prop and
                           \* whether the correlation notice is rendered
    runbook,               \* the RemediationRunbook on display: its steps prop, its
                           \* React state and the run timeouts not yet run
    console                \* the LogStreamConsole on display: its podName prop, its
                           \* React state, its active intervals and the last operation

vars == <<messages, selectedMessageIndex, status, showConfirm, timers,
          orphanTimers, confirms, executions, lastEvent,
          registry, toolCall, panel, timeline, runbook, console>>

\* the state of the gate and of the canvas
gateVars == <<messages, selectedMessageIndex, status, showConfirm, timers,
              orphanTimers, confirms, executions>>

\* what the card and the canvas neither read nor write
dataVars == <<registry, toolCall, panel, timeline, runbook, console>>

\* ---- RollbackApprovalCard ---------------------------------------------
\* rollbackApprovalCardSchema, for the props modelled: service is a string
\* and riskLevel is one of the enum's literals
SchemaAccepts(p) == p.service /\ p.riskLevel \in {"low", "medium", "high"}

\* const safeRiskLevel = riskLevel && riskLevel in riskConfig ? riskLevel : "medium"
safeRiskLevel(riskLevel) ==
    IF riskLevel # "undefined" /\ riskLevel \in riskConfig THEN riskLevel ELSE "medium"

\* ---- Canvas -----------------------------------------------------------
\* indices of the messages whose renderedComponent is not null
renderedComponents(msgs) == {i \in 1..Len(msgs) : msgs[i].component # "null"}

Last(S) == CHOOSE i \in S : \A j \in S : j <= i

\* the component the canvas displays; "null" when nothing is selected
activeComponent ==
    IF selectedMessageIndex = 0
    THEN [component |-> "null", props |-> NoProps]
    ELSE messages[selectedMessageIndex]

IsCard(r) == r.component = "RollbackApprovalCard"

Init ==
    /\ messages = <<>>
    /\ selectedMessageIndex = 0
    /\ status = "pending"
    /\ showConfirm = FALSE
    /\ timers = 0
    /\ orphanTimers = 0
    /\ confirms = 0
    /\ executions = 0
    /\ lastEvent = "render"
    /\ registry = [tools |-> tools, components |-> components]
    /\ toolCall = NoToolCall
    /\ panel = NoPanel
    /\ timeline = NoTimeline
    /\ runbook = NoRunbook
    /\ console = NoConsole

\* variant: the card approves itself when it is mounted
Mount_AutoApprove ==
    /\ orphanTimers + timers <= MaxOrphans
    /\ status' = "executing"
    /\ showConfirm' = FALSE
    /\ timers' = 1
    /\ orphanTimers' = orphanTimers + timers
    /\ confirms' = 0
    /\ executions' = 1
    /\ lastEvent' = "mount"

\* React unmounts the instance in the canvas, if any, and mounts a new one
\* with the initial values of useState; the timeouts of the unmounted
\* instance stay scheduled
Mount ==
    /\ orphanTimers + timers <= MaxOrphans
    /\ status' = "pending"
    /\ showConfirm' = FALSE
    /\ timers' = 0
    /\ orphanTimers' = orphanTimers + timers
    /\ confirms' = 0
    /\ executions' = 0
    /\ lastEvent' = "mount"

\* the instance in the canvas, if any, stays and keeps its state
Keep ==
    /\ UNCHANGED <<status, showConfirm, timers, orphanTimers, confirms, executions>>
    /\ lastEvent' = "render"

\* a message arrives in the thread; the auto-select effect then selects the
\* latest rendered component when nothing is selected
ReceiveMessage(r) ==
    /\ Len(messages) < MaxMsgs
    /\ messages' = Append(messages, r)
    /\ IF renderedComponents(messages') # {} /\ selectedMessageIndex = 0
       THEN /\ selectedMessageIndex' = Last(renderedComponents(messages'))
            /\ Mount
       ELSE /\ UNCHANGED selectedMessageIndex
            /\ Keep
    /\ UNCHANGED dataVars

\* the decision-maker re-renders the card of message m with other props
\* (props stream in); the mounted instance keeps its state
UpdateProps(m, p) ==
    /\ m \in 1..Len(messages)
    /\ IsCard(messages[m])
    /\ p # messages[m].props
    /\ messages' = [messages EXCEPT ![m].props = p]
    /\ UNCHANGED selectedMessageIndex
    /\ Keep
    /\ UNCHANGED dataVars

\* a click on the tab of message m.  The canvas renders {activeComponent}
\* in one place and gives it no key: an element of another component type
\* replaces the instance, an element of the same type keeps it unless the
\* elements carry distinct keys, which the canvas does not decide.
SelectTab(m) ==
    /\ Cardinality(renderedComponents(messages)) > 1
    /\ m \in renderedComponents(messages)
    /\ m # selectedMessageIndex
    /\ selectedMessageIndex' = m
    /\ \/ Mount
       \/ /\ messages[m].component = activeComponent.component
          /\ Keep
    /\ UNCHANGED <<messages, dataVars>>

\* ---- the card's handlers ----------------------------------------------
\* variant: the buttons stay rendered whatever the status
ButtonsRendered_AnyStatus ==
    /\ IsCard(activeComponent)
    /\ activeComponent.props.service

\* the Reject and Approve buttons are rendered when the card is past its
\* loading placeholder and status === "pending"
ButtonsRendered ==
    /\ IsCard(activeComponent)
    /\ activeComponent.props.service
    /\ status = "pending"

\* variant: the first click executes whatever the risk level
handleApprove_NoSecondConfirm ==
    /\ status' = "executing"
    /\ timers' = timers + 1
    /\ executions' = executions + 1
    /\ UNCHANGED showConfirm

\* variant: every risk level but low asks for the final confirmation
handleApprove_MediumNeedsTwo ==
    IF safeRiskLevel(activeComponent.props.riskLevel) # "low" /\ ~showConfirm
    THEN /\ showConfirm' = TRUE
         /\ UNCHANGED <<status, timers, executions>>
    ELSE /\ status' = "executing"
         /\ timers' = timers + 1
         /\ executions' = executions + 1
         /\ UNCHANGED showConfirm

handleApprove ==
    IF safeRiskLevel(activeComponent.props.riskLevel) = "high" /\ ~showConfirm
    THEN /\ showConfirm' = TRUE
         /\ UNCHANGED <<status, timers, executions>>
    ELSE /\ status' = "executing"
         /\ timers' = timers + 1
         /\ executions' = executions + 1
         /\ UNCHANGED showConfirm

\* variant: Reject on the final confirmation only takes the confirmation back
handleReject_BackToPending ==
    IF showConfirm
    THEN /\ showConfirm' = FALSE
         /\ UNCHANGED <<status, timers, executions>>
    ELSE /\ status' = "rejected"
         /\ UNCHANGED <<showConfirm, timers, executions>>

handleReject ==
    /\ status' = "rejected"
    /\ UNCHANGED <<showConfirm, timers, executions>>

\* the user clicks where the Approve / Confirm button is; the click reaches
\* handleApprove only when the button is rendered
ClickApprove ==
    /\ IsCard(activeComponent)
    /\ ButtonsRendered => confirms < MaxClicks
    /\ IF ButtonsRendered
       THEN /\ handleApprove
            /\ confirms' = confirms + 1
            /\ lastEvent' = "confirm"
       ELSE /\ UNCHANGED <<status, showConfirm, timers, executions, confirms>>
            /\ lastEvent' = "confirmNoButton"
    /\ UNCHANGED <<messages, selectedMessageIndex, orphanTimers, dataVars>>

\* the user clicks where the Reject button is; the click reaches
\* handleReject only when the button is rendered
ClickReject ==
    /\ IsCard(activeComponent)
    /\ IF ButtonsRendered
       THEN /\ handleReject
            /\ lastEvent' = "reject"
       ELSE /\ UNCHANGED <<status, showConfirm, timers, executions>>
            /\ lastEvent' = "rejectNoButton"
    /\ UNCHANGED <<messages, selectedMessageIndex, orphanTimers, confirms, dataVars>>

\* how the rollback that the timeout stands for has ended
Outcomes == {"resolved", "failed"}

\* a completion timeout of the mounted card runs: setStatus("approved").
\* The callback takes no argument: how the rollback ended is not an input.
TimerFires(outcome) ==
    /\ timers > 0
    /\ timers' = timers - 1
    /\ status' = "approved"
    /\ UNCHANGED <<messages, selectedMessageIndex, showConfirm, orphanTimers,
                   confirms, executions>>
    /\ lastEvent' = IF outcome = "failed" THEN "timerFailed" ELSE "timer"
    /\ UNCHANGED dataVars

\* variant: the callback of an unmounted card writes the card on display
OrphanTimerFires_WritesMounted ==
    /\ orphanTimers > 0
    /\ orphanTimers' = orphanTimers - 1
    /\ status' = "approved"
    /\ UNCHANGED <<messages, selectedMessageIndex, showConfirm, timers,
                   confirms, executions>>
    /\ lastEvent' = "timer"
    /\ UNCHANGED dataVars

\* a completion timeout of an unmounted card runs: its setStatus reaches no
\* mounted instance
OrphanTimerFires ==
    /\ orphanTimers > 0
    /\ orphanTimers' = orphanTimers - 1
    /\ UNCHANGED <<messages, selectedMessageIndex, status, showConfirm, timers,
                   confirms, executions>>
    /\ lastEvent' = "timer"
    /\ UNCHANGED dataVars

Next ==
    \/ \E r \in Rendered : ReceiveMessage(r)
    \/ \E m \in 1..MaxMsgs, p \in CardProps : UpdateProps(m, p)
    \/ \E m \in 1..MaxMsgs : SelectTab(m)
    \/ ClickApprove
    \/ ClickReject
    \/ \E outcome \in Outcomes : TimerFires(outcome)
    \/ OrphanTimerFires

Spec == Init /\ [][Next]_vars

\* the browser runs every scheduled timeout
FairSpec ==
    /\ Spec
    /\ WF_vars(\E outcome \in Outcomes : TimerFires(outcome))
    /\ WF_vars(OrphanTimerFires)

TypeOK ==
    /\ messages \in Seq(Rendered) /\ Len(messages) <= MaxMsgs
    /\ selectedMessageIndex \in 0..Len(messages)
    /\ (selectedMessageIndex = 0) = (renderedComponents(messages) = {})
    /\ status \in Statuses
    /\ showConfirm \in BOOLEAN
    /\ timers \in 0..MaxClicks
    /\ orphanTimers \in 0..MaxOrphans
    /\ confirms \in 0..MaxClicks
    /\ executions \in 0..MaxClicks
    /\ lastEvent \in {"render", "mount", "confirm", "reject", "confirmNoButton",
                      "rejectNoButton", "timer", "timerFailed"}

\* ---- properties -------------------------------------------------------
\* safeRiskLevel of the card the canvas displays
CurrentRisk == safeRiskLevel(activeComponent.props.riskLevel)

\* the gate state of the mounted card: a pending card that shows its final
\* confirmation is awaiting the second confirm
GateState == IF status = "pending" /\ showConfirm THEN "confirming" ELSE status

\* C1: on a card whose risk level is high, the first confirm from pending
\* only asks for the final confirmation (the card stays pending, nothing is
\* executed or scheduled); the step into executing is the second confirm.
C1_HighRiskNeedsTwoConfirms ==
    [][(lastEvent' = "confirm" /\ CurrentRisk = "high")
        => IF ~showConfirm
           THEN /\ status' = "pending" /\ showConfirm'
                /\ executions' = executions /\ timers' = timers
           ELSE /\ status' = "executing" /\ confirms' >= 2]_vars

C1_Witness ==
    /\ status = "executing" /\ IsCard(activeComponent)
    /\ CurrentRisk = "high"
    /\ showConfirm /\ confirms = 2 /\ executions = 1

\* C2: a card enters executing at most once and schedules at most one
\* completion, and a confirm delivered while it is executing changes nothing.
C2_AtMostOnceExecution ==
    /\ [](executions <= 1 /\ timers <= 1)
    /\ [][(status = "executing" /\ lastEvent' \in {"confirm", "confirmNoButton"})
           => /\ lastEvent' = "confirmNoButton"
              /\ UNCHANGED <<status, showConfirm, timers, orphanTimers,
                             executions, confirms>>]_vars

C2_Witness ==
    /\ status = "executing" /\ lastEvent = "confirmNoButton"
    /\ executions = 1 /\ timers = 1

\* confirm clicks a card of risk level r asks for before it executes
Required(r) == IF r = "high" THEN 2 ELSE 1

\* C3: a card leaves pending / awaiting final confirmation only by a click
\* that reached handleApprove or handleReject: a newly mounted card is
\* pending with nothing scheduled, no render, props change or timeout moves
\* a waiting card, and a card that is executing or approved has handled the
\* confirm clicks its risk level asked for.
C3_OnlyHumanClicksMoveTheGate ==
    /\ [](status \in {"executing", "approved"} => confirms >= 1 /\ executions = 1)
    /\ [][lastEvent' = "mount"
           => GateState' = "pending" /\ executions' = 0 /\ timers' = 0]_vars
    /\ [][(lastEvent' \notin {"confirm", "reject", "mount"}
             /\ GateState \in {"pending", "confirming"})
           => GateState' = GateState /\ timers' = timers]_vars
    /\ [][(status' = "executing" /\ status # "executing")
           => lastEvent' = "confirm" /\ confirms' >= Required(CurrentRisk)]_vars

C3_Witness ==
    /\ status = "approved" /\ IsCard(activeComponent)
    /\ lastEvent = "timer" /\ confirms = 2

\* C4: a reject click on a pending card, also one awaiting its final
\* confirmation, makes it rejected; a rejected card stays rejected under
\* every later event, has never executed and has no completion scheduled.
C4_RejectIsFinal ==
    /\ [][lastEvent' = "reject"
           => GateState \in {"pending", "confirming"} /\ status' = "rejected"]_vars
    /\ [][(status = "rejected" /\ lastEvent' # "mount") => status' = "rejected"]_vars
    /\ [](status = "rejected" => executions = 0 /\ timers = 0)

C4_Witness ==
    /\ status = "rejected" /\ showConfirm
    /\ lastEvent = "confirmNoButton" /\ executions = 0

\* C5: a reject click while the card is executing changes nothing, the
\* completion timeout then finds the card executing and makes it approved,
\* and a rejected card never becomes approved.
C5_NoRejectWhileExecuting ==
    /\ [][(status = "executing" /\ lastEvent' \in {"reject", "rejectNoButton"})
           => /\ lastEvent' = "rejectNoButton"
              /\ UNCHANGED <<status, showConfirm, timers, orphanTimers,
                             executions, confirms>>]_vars
    /\ [][timers' < timers /\ lastEvent' \in {"timer", "timerFailed"}
           => status = "executing" /\ status' = "approved"]_vars
    /\ [][status = "rejected" => status' # "approved"]_vars

C5_Witness ==
    /\ status = "executing" /\ lastEvent = "rejectNoButton" /\ timers = 1

\* C6: every change of the state of a mounted card is a listed transition,
\* so approved and rejected are never left and approved follows executing.
C6_OnlyListedTransitions ==
    [][(lastEvent' # "mount" /\ GateState' # GateState)
        => <<GateState, GateState'>> \in
              {<<"pending", "confirming">>, <<"pending", "executing">>,
               <<"pending", "rejected">>, <<"confirming", "executing">>,
               <<"confirming", "rejected">>, <<"executing", "approved">>,
               <<"executing", "failed">>}]_vars

C6_Witness ==
    /\ GateState = "approved" /\ showConfirm /\ lastEvent = "rejectNoButton"

\* confirm clicks the mounted card still asks for
StillRequired == IF CurrentRisk = "high" /\ ~showConfirm THEN 2 ELSE 1

\* C7: the confirmations a card asks for are fixed when it is created: a
\* render that changes the risk level of the card on display does not change
\* the number of confirm clicks a pending card still asks for.
C7_RequirementFixedAtCreation ==
    [][(lastEvent' = "render" /\ selectedMessageIndex' = selectedMessageIndex
          /\ IsCard(activeComponent) /\ status = "pending")
        => StillRequired' = StillRequired]_vars

\* C8: an invocation whose arguments the schema rejects gets no gate that
\* can be confirmed: no confirm click reaches handleApprove while the props
\* of the card fail rollbackApprovalCardSchema.
C8_InvalidArgsNeverConfirmed ==
    [][lastEvent' = "confirm" => SchemaAccepts(activeComponent.props)]_vars

\* C9: a card is discarded only in a terminal state and is never handed to
\* another invocation: when the canvas selection moves off a card, that card
\* is approved or rejected and its instance is not kept for the new selection.
C9_DiscardedOnlyWhenTerminal ==
    [][(IsCard(activeComponent) /\ selectedMessageIndex' # selectedMessageIndex)
        => status \in {"approved", "rejected"} /\ lastEvent' = "mount"]_vars

\* C10: on a card whose risk level is low or medium, one confirm click from
\* pending puts it in executing, with no final confirmation in between.
C10_LowMediumOneConfirm ==
    [][(lastEvent' = "confirm" /\ ~showConfirm /\ CurrentRisk \in {"low", "medium"})
        => /\ status' = "executing" /\ ~showConfirm'
           /\ confirms' = 1 /\ executions' = 1 /\ timers' = 1]_vars

C10_Witness ==
    /\ status = "executing" /\ IsCard(activeComponent)
    /\ activeComponent.props.riskLevel = "low"
    /\ ~showConfirm /\ confirms = 1 /\ lastEvent = "confirm"

\* C11: when the rollback behind an executing card fails, the card ends in
\* failed, not in approved.
C11_FailureEndsInFailed ==
    [][lastEvent' = "timerFailed" => status' = "failed"]_vars

\* C12: every card that enters executing reaches a terminal state once its
\* completion timeout has run.
C12_ExecutingReachesTerminal ==
    (status = "executing") ~> (status \in {"approved", "rejected", "failed"})

ShowsLoading == IsCard(activeComponent) /\ ~activeComponent.props.service

\* the label of the Approve button
ButtonLabel == IF showConfirm THEN "Confirm Rollback" ELSE "Approve Rollback"

\* the "Final Confirmation Required" notice
ShowsFinalConfirmation ==
    /\ IsCard(activeComponent) /\ activeComponent.props.service
    /\ showConfirm /\ CurrentRisk = "high" /\ status = "pending"

\* the status displays below the buttons
ShowsStatus(st) ==
    IsCard(activeComponent) /\ activeComponent.props.service /\ status = st

\* the phases the card on display shows
PhasesShown ==
    {ph \in {"awaiting first confirmation", "awaiting final confirmation",
             "in progress", "succeeded", "rejected"} :
        \/ ph = "awaiting first confirmation"
             /\ ButtonsRendered /\ ButtonLabel = "Approve Rollback"
        \/ ph = "awaiting final confirmation"
             /\ ButtonsRendered /\ ButtonLabel = "Confirm Rollback"
        \/ ph = "in progress" /\ ShowsStatus("executing")
        \/ ph = "succeeded" /\ ShowsStatus("approved")
        \/ ph = "rejected" /\ ShowsStatus("rejected")}

C19_AutoSelectsLatest ==
    [][(Len(messages') > Len(messages)
          /\ (selectedMessageIndex = 0
                \/ selectedMessageIndex = Last(renderedComponents(messages))))
        => IF renderedComponents(messages') = {}
           THEN selectedMessageIndex' = 0
           ELSE selectedMessageIndex' = Last(renderedComponents(messages'))]_vars

\* ---- the tools --------------------------------------------------------
\* strings a caller may pass as serviceName: names of services, another
\* spelling of one, a name no table knows, a name every JavaScript object
\* inherits, and the empty string
ServiceStrings ==
    {"checkout-service", "payment-service", "notification-service",
     "api-gateway", "Checkout-Service", "unknown-service", "constructor", ""}

\* what a handler may be called with: no params object at all, params
\* without serviceName, params whose serviceName is a number (42), params
\* whose serviceName is a string; hours is omitted or a number of hours.
\* namespace is read by no handler.
HoursInputs ==
    {[given |-> FALSE, value |-> 0]}
        \cup {[given |-> TRUE, value |-> h] : h \in 1..MaxHours}

ToolInputs ==
    {[params |-> FALSE, type |-> "undefined", serviceName |-> "",
      hours |-> [given |-> FALSE, value |-> 0]]}
        \cup {[params |-> TRUE, type |-> t, serviceName |-> "", hours |-> h] :
                 t \in {"undefined", "number"}, h \in HoursInputs}
        \cup {[params |-> TRUE, type |-> "string", serviceName |-> str, hours |-> h] :
                 str \in ServiceStrings, h \in HoursInputs}

\* the inputSchema of the tool: params is an object and serviceName is a
\* string, which only getRollbackRecommendation requires
InputAccepted(tool, in) ==
    /\ in.params
    /\ \/ in.type = "string"
       \/ in.type = "undefined" /\ tool # "getRollbackRecommendation"

\* if (params.serviceName): a number other than 0 or a non-empty string
Truthy(in) == in.type = "number" \/ (in.type = "string" /\ in.serviceName # "")

\* reading params.serviceName of an undefined params throws a TypeError
Throws == [throws |-> TRUE]

\* the services array of getClusterStatus (cpuUsage and memoryUsage are
\* number literals in every entry)
services ==
    <<[serviceName |-> "api-gateway", health |-> "healthy"],
      [serviceName |-> "checkout-service", health |-> "degraded"],
      [serviceName |-> "payment-service", health |-> "healthy"],
      [serviceName |-> "inventory-service", health |-> "healthy"],
      [serviceName |-> "notification-service", health |-> "down"],
      [serviceName |-> "user-service", health |-> "healthy"]>>

\* the edges array of getClusterStatus (latencyMs is a number literal in
\* every entry)
edges ==
    <<[source |-> "api-gateway", target |-> "checkout-service"],
      [source |-> "api-gateway", target |-> "user-service"],
      [source |-> "checkout-service", target |-> "payment-service"],
      [source |-> "checkout-service", target |-> "inventory-service"],
      [source |-> "checkout-service", target |-> "notification-service"],
      [source |-> "payment-service", target |-> "notification-service"]>>

getClusterStatus(in) ==
    IF ~in.params THEN Throws
    ELSE IF Truthy(in)
    THEN LET found == SelectSeq(services,
                         LAMBDA sv : in.type = "string"
                                       /\ sv.serviceName = in.serviceName)
         IN [throws |-> FALSE,
             nodes |-> IF found = <<>> THEN <<>> ELSE <<Head(found)>>,
             edges |-> <<>>]
    ELSE [throws |-> FALSE, nodes |-> services, edges |-> edges]

\* the events array of getRecentEvents; minutesAgo is how long before the
\* call the timestamp lies and mentions is the service name that the
\* description contains
events ==
    <<[minutesAgo |-> 5, type |-> "error", mentions |-> "checkout-service"],
      [minutesAgo |-> 8, type |-> "latency", mentions |-> "checkout-service"],
      [minutesAgo |-> 15, type |-> "deploy", mentions |-> "checkout-service"],
      [minutesAgo |-> 45, type |-> "deploy", mentions |-> "notification-service"],
      [minutesAgo |-> 120, type |-> "latency", mentions |-> "api-gateway"]>>

\* String.prototype.toLowerCase on the strings modelled
toLowerCase(str) == IF str = "Checkout-Service" THEN "checkout-service" ELSE str

\* e.description.toLowerCase().includes(str), for the strings modelled: of
\* these a description contains the empty string and the name it mentions
includes(e, str) == str = "" \/ str = e.mentions

getRecentEvents(in) ==
    IF ~in.params THEN Throws
    ELSE IF Truthy(in)
    THEN IF in.type = "number"
         THEN Throws   \* a number has no toLowerCase
         ELSE [throws |-> FALSE,
               events |-> SelectSeq(events,
                             LAMBDA e : includes(e, toLowerCase(in.serviceName)))]
    ELSE [throws |-> FALSE, events |-> events]

\* the own properties of the recommendations object
recommendations ==
    [str \in {"checkout-service", "notification-service", "payment-service"} |->
        [kind |-> "object", service |-> str, serviceType |-> "string",
         currentVersion |-> CASE str = "checkout-service" -> "v2.3.1"
                              [] str = "notification-service" -> "v1.8.0"
                              [] OTHER -> "v3.1.0",
         targetVersion |-> CASE str = "checkout-service" -> "v2.3.0"
                             [] str = "notification-service" -> "v1.7.2"
                             [] OTHER -> "v3.0.5",
         riskLevel |-> CASE str = "checkout-service" -> "medium"
                         [] str = "notification-service" -> "low"
                         [] OTHER -> "high"]]

\* recommendations is an object literal: recommendations[key] also finds
\* what the object inherits from Object.prototype, all of it truthy
ObjectPrototypeKeys ==
    {"constructor", "toString", "valueOf", "hasOwnProperty", "__proto__"}

getRollbackRecommendation(in) ==
    IF ~in.params THEN Throws
    ELSE IF in.type = "string" /\ in.serviceName \in DOMAIN recommendations
    THEN [throws |-> FALSE, value |-> recommendations[in.serviceName]]
    ELSE IF in.type = "string" /\ in.serviceName \in ObjectPrototypeKeys
    THEN [throws |-> FALSE,
          value |-> [kind |-> "inherited", key |-> in.serviceName]]
    ELSE [throws |-> FALSE,
          value |-> [kind |-> "object", service |-> in.serviceName,
                     serviceType |-> in.type,
                     currentVersion |-> "v1.0.0", targetVersion |-> "v0.9.0",
                     riskLevel |-> "medium"]]

\* the tool property of the entry of the tools array with this name
Handler(tool, in) ==
    CASE tool = "getClusterStatus" -> getClusterStatus(in)
      [] tool = "getRecentEvents" -> getRecentEvents(in)
      [] OTHER -> getRollbackRecommendation(in)

\* the outputSchema of the tool, for what is modelled of a result
OutputConforms(tool, r) ==
    CASE tool = "getClusterStatus" ->
            \A i \in DOMAIN r.nodes :
                r.nodes[i].health \in {"healthy", "degraded", "down"}
      [] tool = "getRecentEvents" ->
            \A i \in DOMAIN r.events :
                r.events[i].type \in {"deploy", "error", "latency"}
      [] OTHER ->
            /\ r.value.kind = "object"
            /\ r.value.serviceType = "string"
            /\ r.value.riskLevel \in {"low", "medium", "high"}

\* variant: a tool call approves the rollback on display
CallTool_Approves(tool, in) ==
    /\ \E i \in DOMAIN registry.tools : registry.tools[i] = tool
    /\ toolCall' = [tool |-> tool, input |-> in, result |-> Handler(tool, in)]
    /\ lastEvent' = "tool"
    /\ status' = "approved"
    /\ UNCHANGED <<messages, selectedMessageIndex, showConfirm, timers,
                   orphanTimers, confirms, executions, registry, panel, timeline,
                   runbook, console>>

\* the decision-maker invokes a registered tool: the handler computes its
\* result from its params and its own literals
CallTool(tool, in) ==
    /\ \E i \in DOMAIN registry.tools : registry.tools[i] = tool
    /\ toolCall' = [tool |-> tool, input |-> in, result |-> Handler(tool, in)]
    /\ lastEvent' = "tool"
    /\ UNCHANGED <<gateVars, registry, panel, timeline, runbook, console>>

\* a thread in which a card for a rollback is on display
InitTools ==
    /\ messages \in {<<[component |-> "RollbackApprovalCard",
                        props |-> [service |-> TRUE, riskLevel |-> r]]>> :
                        r \in riskConfig}
    /\ selectedMessageIndex = 1
    /\ status = "pending"
    /\ showConfirm = FALSE
    /\ timers = 0
    /\ orphanTimers = 0
    /\ confirms = 0
    /\ executions = 0
    /\ lastEvent = "mount"
    /\ registry = [tools |-> tools, components |-> components]
    /\ toolCall = NoToolCall
    /\ panel = NoPanel
    /\ timeline = NoTimeline
    /\ runbook = NoRunbook
    /\ console = NoConsole

NextTools ==
    \/ \E i \in DOMAIN tools, in \in ToolInputs : CallTool(tools[i], in)
    \/ ClickApprove
    \/ ClickReject
    \/ \E outcome \in Outcomes : TimerFires(outcome)

SpecTools == InitTools /\ [][NextTools]_vars

\* C14: a tool invocation, returning or throwing, leaves the thread, the
\* canvas and the card as they were: it mounts no card and changes none.
C14_ToolsLeaveGatesAlone ==
    [][lastEvent' = "tool" => UNCHANGED gateVars]_vars

C14_Witness ==
    /\ lastEvent = "tool" /\ toolCall.result.throws
    /\ IsCard(activeComponent) /\ status = "executing"

\* C16: for every input its inputSchema accepts, a tool returns (it does
\* not throw) a result that its outputSchema accepts.
C16_ResultsConformToOutputSchema ==
    (toolCall.tool # "none" /\ InputAccepted(toolCall.tool, toolCall.input))
        => /\ ~toolCall.result.throws
           /\ OutputConforms(toolCall.tool, toolCall.result)

\* C18: no two tools and no two components of the registry share a name,
\* and the registry never changes.
C18_UniqueNamesFixedRegistry ==
    /\ [](/\ \A i, j \in DOMAIN registry.tools :
               registry.tools[i] = registry.tools[j] => i = j
          /\ \A i, j \in DOMAIN registry.components :
               registry.components[i] = registry.components[j] => i = j)
    /\ [][registry' = registry]_vars

C18_Witness ==
    /\ toolCall.tool = "getRollbackRecommendation"
    /\ ~toolCall.result.throws
    /\ Len(registry.tools) = 3 /\ Len(registry.components) = 9

\* ---- IncidentOverviewPanel --------------------------------------------
\* confidence: z.number().min(0).max(100)
confidenceMin == 0
confidenceMax == 100

\* what may arrive in the confidence prop: nothing, or a number in or
\* around the declared range
ConfidenceInputs ==
    {[defined |-> FALSE, value |-> 0]}
        \cup {[defined |-> TRUE, value |-> v] :
                 v \in (confidenceMin - MaxOver)..(confidenceMax + MaxOver)}

\* variant: the schema brings an out-of-range number into the range
confidenceSchema_Clamps(c) ==
    IF ~c.defined THEN [success |-> FALSE, issue |-> "invalid_type"]
    ELSE IF c.value < confidenceMin THEN [success |-> TRUE, data |-> confidenceMin]
    ELSE IF c.value > confidenceMax THEN [success |-> TRUE, data |-> confidenceMax]
    ELSE [success |-> TRUE, data |-> c.value]

\* the result of parsing the confidence field with its schema
confidenceSchema(c) ==
    IF ~c.defined THEN [success |-> FALSE, issue |-> "invalid_type"]
    ELSE IF c.value < confidenceMin THEN [success |-> FALSE, issue |-> "too_small"]
    ELSE IF c.value > confidenceMax THEN [success |-> FALSE, issue |-> "too_big"]
    ELSE [success |-> TRUE, data |-> c.value]

\* const safeConfidence = confidence ?? 0
safeConfidence(c) == IF c.defined THEN c.value ELSE 0

\* the decision-maker renders the panel: without a summary the loading
\* state, else the percentage {safeConfidence}%
RenderPanel(summary, c) ==
    /\ panel' = [rendered |-> TRUE, summary |-> summary, confidence |-> c,
                 validation |-> confidenceSchema(c),
                 display |-> IF ~summary
                             THEN [loading |-> TRUE]
                             ELSE [loading |-> FALSE, percent |-> safeConfidence(c)]]
    /\ UNCHANGED <<gateVars, lastEvent, registry, toolCall, timeline, runbook,
                   console>>

NextPanel == \E summary \in BOOLEAN, c \in ConfidenceInputs : RenderPanel(summary, c)

SpecPanel == Init /\ [][NextPanel]_vars

\* C17: a confidence below 0 or above 100 fails the schema, one within
\* 0..100 passes with the same number, and the panel displays the number
\* it was given, never one brought into the range.
C17_OutOfRangeRejectedNotClamped ==
    panel.rendered =>
        /\ (panel.confidence.defined
              /\ (panel.confidence.value < 0 \/ panel.confidence.value > 100))
            => ~panel.validation.success
        /\ (panel.confidence.defined
              /\ panel.confidence.value >= 0 /\ panel.confidence.value <= 100)
            => /\ panel.validation.success
               /\ panel.validation.data = panel.confidence.value
        /\ (panel.confidence.defined /\ ~panel.display.loading)
            => panel.display.percent = panel.confidence.value

C17_Witness ==
    /\ panel.rendered /\ panel.confidence.defined
    /\ panel.confidence.value > 100
    /\ ~panel.validation.success
    /\ ~panel.display.loading /\ panel.display.percent > 100

\* ---- RootCauseTimeline ------------------------------------------------
\* an event of the events prop; timestamp is new Date(e.timestamp).getTime()
\* of a valid ISO timestamp (description is only displayed)
TimelineEvents == [timestamp : 1..MaxTime, type : {"deploy", "error", "latency"}]

\* Array.prototype.sort with (a, b) => time(b) - time(a) is stable: e goes
\* behind every event of s that is not older than it
RECURSIVE SortInsert(_, _)
SortInsert(e, sorted) ==
    IF sorted = <<>> THEN <<e>>
    ELSE IF Head(sorted).timestamp >= e.timestamp
    THEN <<Head(sorted)>> \o SortInsert(e, Tail(sorted))
    ELSE <<e>> \o sorted

\* the events, most recent first
RECURSIVE sortedEvents(_)
sortedEvents(evs) ==
    IF evs = <<>> THEN <<>>
    ELSE SortInsert(evs[Len(evs)], sortedEvents(SubSeq(evs, 1, Len(evs) - 1)))

\* sortedEvents.findIndex((e) => e.type === type): 0-based, -1 for none
findIndex(sorted, type) ==
    IF \E i \in DOMAIN sorted : sorted[i].type = type
    THEN (CHOOSE i \in DOMAIN sorted :
             /\ sorted[i].type = type
             /\ \A j \in 1..(i - 1) : sorted[j].type # type) - 1
    ELSE -1

hasCorrelation(evs) ==
    LET deployIndex == findIndex(sortedEvents(evs), "deploy")
        errorIndex == findIndex(sortedEvents(evs), "error")
    IN deployIndex > -1 /\ errorIndex > -1 /\ deployIndex > errorIndex

\* the events prop grows by one event (props stream in) and the timeline
\* renders again
EventArrives(e) ==
    /\ Len(timeline.events) < MaxEvents
    /\ timeline' = [events |-> Append(timeline.events, e),
                    loading |-> FALSE,
                    hasCorrelation |-> hasCorrelation(Append(timeline.events, e))]
    /\ UNCHANGED <<gateVars, lastEvent, registry, toolCall, panel, runbook,
                   console>>

NextTimeline == \E e \in TimelineEvents : EventArrives(e)

SpecTimeline == Init /\ [][NextTimeline]_vars

\* C20: the correlation notice is rendered exactly when some deploy event
\* is followed by an error event with a strictly later timestamp.
C20_NoticeIffDeployThenError ==
    timeline.hasCorrelation
        <=> \E i, j \in DOMAIN timeline.events :
                /\ timeline.events[i].type = "deploy"
                /\ timeline.events[j].type = "error"
                /\ timeline.events[j].timestamp > timeline.events[i].timestamp

\* C21: getRecentEvents returns only events of the last `hours` hours (24
\* when hours is omitted), and only events of the service asked for.
C21_EventsWithinLookBack ==
    (toolCall.tool = "getRecentEvents" /\ ~toolCall.result.throws)
        => \A i \in DOMAIN toolCall.result.events :
              /\ toolCall.result.events[i].minutesAgo
                    <= 60 * (IF toolCall.input.hours.given
                             THEN toolCall.input.hours.value ELSE 24)
              /\ (toolCall.input.type = "string" /\ toolCall.input.serviceName # "")
                    => toolCall.result.events[i].mentions
                          = toLowerCase(toolCall.input.serviceName)

\* ---- RemediationRunbook -----------------------------------------------
\* the steps prop: step i has the id i, ids are unique, and each step is
\* automated or not (title, command, description and riskLevel are only
\* displayed)
StepLists ==
    UNION {[1..n -> [id : {0}, isAutomated : BOOLEAN]] : n \in 0..MaxSteps}

\* the step ids of the runbook
StepIds == {runbook.steps[i].id : i \in DOMAIN runbook.steps}

\* the checkbox of a step: toggleStep(step.id)
toggleStep(id) ==
    /\ id \in StepIds
    /\ runbook' = [runbook EXCEPT !.completedSteps =
                      IF id \in @ THEN @ \ {id} ELSE @ \cup {id}]
    /\ UNCHANGED <<gateVars, lastEvent, registry, toolCall, panel, timeline,
                   console>>

\* the Run button of a step is rendered for an automated step that is not
\* completed, and is disabled while runningStep is that step
RunEnabled(id) ==
    /\ \E i \in DOMAIN runbook.steps :
          runbook.steps[i].id = id /\ runbook.steps[i].isAutomated
    /\ id \notin runbook.completedSteps
    /\ runbook.runningStep # id

\* a click on an enabled Run button: simulateRun(step.id) sets runningStep
\* and schedules the completion 2 s later
simulateRun(id) ==
    /\ RunEnabled(id)
    /\ Len(runbook.runs) < MaxRuns
    /\ runbook' = [runbook EXCEPT !.runningStep = id, !.runs = Append(@, id)]
    /\ UNCHANGED <<gateVars, lastEvent, registry, toolCall, panel, timeline,
                   console>>

\* variant: the completion marks the step after the one that was run
RunCompletes_MarksNextStep ==
    /\ runbook.runs # <<>>
    /\ runbook' = [runbook EXCEPT !.runningStep = 0,
                                  !.completedSteps = @ \cup {Head(runbook.runs) + 1},
                                  !.runs = Tail(@)]
    /\ UNCHANGED <<gateVars, lastEvent, registry, toolCall, panel, timeline,
                   console>>

\* the oldest scheduled completion runs (all are scheduled with the same
\* delay): setRunningStep(null) and the step of this run is completed
RunCompletes ==
    /\ runbook.runs # <<>>
    /\ runbook' = [runbook EXCEPT !.runningStep = 0,
                                  !.completedSteps = @ \cup {Head(runbook.runs)},
                                  !.runs = Tail(@)]
    /\ UNCHANGED <<gateVars, lastEvent, registry, toolCall, panel, timeline,
                   console>>

\* (completedSteps.size / steps.length) * 100, its integer part
progress ==
    IF Len(runbook.steps) > 0
    THEN (Cardinality(runbook.completedSteps) * 100) \div Len(runbook.steps)
    ELSE 0

isComplete == Cardinality(runbook.completedSteps) = Len(runbook.steps)

\* 'All steps completed!' is rendered below the steps; a runbook without
\* steps renders 'No remediation steps available' only
ShowsAllCompleted == Len(runbook.steps) # 0 /\ isComplete

\* a runbook with its steps, as it is mounted
InitRunbook ==
    /\ messages = <<>>
    /\ selectedMessageIndex = 0
    /\ status = "pending"
    /\ showConfirm = FALSE
    /\ timers = 0
    /\ orphanTimers = 0
    /\ confirms = 0
    /\ executions = 0
    /\ lastEvent = "render"
    /\ registry = [tools |-> tools, components |-> components]
    /\ toolCall = NoToolCall
    /\ panel = NoPanel
    /\ timeline = NoTimeline
    /\ console = NoConsole
    /\ runbook \in {[NoRunbook EXCEPT !.steps = st] :
                       st \in {[i \in DOMAIN f |-> [id |-> i, isAutomated |-> f[i].isAutomated]] :
                                  f \in StepLists}}

NextRunbook ==
    \/ \E id \in 1..MaxSteps : toggleStep(id)
    \/ \E id \in 1..MaxSteps : simulateRun(id)
    \/ RunCompletes

SpecRunbook == InitRunbook /\ [][NextRunbook]_vars

\* C22: every step whose run is outstanding is the step marked as running,
\* and a run that completes marks its own step completed and no other.
C22_RunningUntilOwnRunCompletes ==
    /\ [](\A i \in DOMAIN runbook.runs : runbook.runningStep = runbook.runs[i])
    /\ [][Len(runbook'.runs) < Len(runbook.runs)
            => runbook'.completedSteps
                  = runbook.completedSteps \cup {Head(runbook.runs)}]_vars

\* C23 as stated: the completed steps are steps of the runbook, progress
\* is at most 100, and 'All steps completed' shows exactly when every step
\* is completed.
C23_CompletedWithinSteps ==
    /\ runbook.completedSteps \subseteq StepIds
    /\ progress <= 100
    /\ ShowsAllCompleted <=> \A id \in StepIds : id \in runbook.completedSteps

\* C23 amended: the same for a runbook that has steps; one without steps
\* never shows 'All steps completed'.
C23_CompletedWithinStepsNonEmpty ==
    /\ runbook.completedSteps \subseteq StepIds
    /\ progress <= 100
    /\ IF StepIds # {}
       THEN ShowsAllCompleted <=> \A id \in StepIds : id \in runbook.completedSteps
       ELSE ~ShowsAllCompleted /\ progress = 0

C23_Witness ==
    /\ Len(runbook.steps) > 1
    /\ runbook.completedSteps = StepIds
    /\ ShowsAllCompleted /\ progress = 100
    /\ runbook.runs = <<>>

\* ---- LogStreamConsole -------------------------------------------------
\* generateMockLogs pushes 25 entries
mockLogCount == 25

\* prev.slice(-50)
sliceKeep == 50

\* the pod names the decision-maker passes
Pods == {"pod-a", "pod-b"}

\* what the user types in the filter box: nothing, the name of a pod, and
\* a text that is no regular expression.  Each message ends with
\* [podName], and no message pattern and no level contains a pod name, so
\* for these texts a match does not depend on the random choice of the
\* message and the level.
FilterInputs == {"", "pod-a", "["}

\* new RegExp(f, "i") does not throw
ValidRegex(f) == f # "["

\* log.message.toLowerCase().includes(f) || log.level.toLowerCase().includes(f)
MatchesText(e, f) == IF f = "[" THEN TRUE ELSE e.pod = f

\* regex.test(log.message) || regex.test(log.level), for a valid f
MatchesRegex(e, f) == e.pod = f

\* the entries generateMockLogs(podName) returns; n numbers the entries of
\* a pod in the order they are made
generateMockLogs(podName) == [i \in 1..mockLogCount |-> [pod |-> podName, n |-> i]]

\* the value of the filteredLogs memo
filteredLogs(c) ==
    IF c.localFilter = "" THEN c.logs
    ELSE IF c.isRegex
    THEN IF ValidRegex(c.localFilter)
         THEN SelectSeq(c.logs, LAMBDA e : MatchesRegex(e, c.localFilter))
         ELSE c.logs
    ELSE SelectSeq(c.logs, LAMBDA e : MatchesText(e, c.localFilter))

\* the setRegexError calls of the filteredLogs memo: the console renders
\* again with the error they leave
Render(c) ==
    [c EXCEPT !.regexError =
        IF c.localFilter = "" THEN FALSE
        ELSE IF c.isRegex THEN ~ValidRegex(c.localFilter)
        ELSE c.regexError]

\* variant: the streaming effect returns no cleanup
streamingEffect_NoCleanup(c) ==
    [c EXCEPT !.tickers = @ + (IF c.isStreaming /\ c.podName # "" THEN 1 ELSE 0)]

\* the streaming effect after isStreaming or podName has changed: its
\* cleanup clears the interval of the previous run, then an interval is
\* set when the console streams and has a pod
streamingEffect(c) ==
    [c EXCEPT !.tickers = (IF @ > 0 THEN @ - 1 ELSE 0)
                            + (IF c.isStreaming /\ c.podName # "" THEN 1 ELSE 0)]

\* s.slice(-k)
Slice(seq, k) ==
    IF Len(seq) <= k THEN seq ELSE SubSeq(seq, Len(seq) - k + 1, Len(seq))

\* the podName prop changes: the log buffer is initialised with the mock
\* logs of the pod and the streaming effect runs again
PodChanges(podName) ==
    /\ podName # console.podName
    /\ console' = Render(streamingEffect(
                     [console EXCEPT !.podName = podName,
                                     !.logs = generateMockLogs(podName),
                                     !.last = "pod"]))
    /\ UNCHANGED <<gateVars, lastEvent, registry, toolCall, panel, timeline, runbook>>

\* variant: a tick keeps the whole buffer
Tick_KeepsAll ==
    /\ console.tickers > 0
    /\ console.logs[Len(console.logs)].n < mockLogCount + MaxTicks
    /\ console' = Render(
          [console EXCEPT !.logs = Append(@,
                              [pod |-> console.podName,
                               n |-> console.logs[Len(console.logs)].n + 1]),
                          !.last = "tick"])
    /\ UNCHANGED <<gateVars, lastEvent, registry, toolCall, panel, timeline, runbook>>

\* an interval fires: setLogs((prev) => [...prev.slice(-50), newLog])
Tick ==
    /\ console.tickers > 0
    /\ console.logs[Len(console.logs)].n < mockLogCount + MaxTicks
    /\ console' = Render(
          [console EXCEPT !.logs = Append(Slice(@, sliceKeep),
                              [pod |-> console.podName,
                               n |-> console.logs[Len(console.logs)].n + 1]),
                          !.last = "tick"])
    /\ UNCHANGED <<gateVars, lastEvent, registry, toolCall, panel, timeline, runbook>>

\* the Pause / Resume button: setIsStreaming(!isStreaming)
TogglePause ==
    /\ console.podName # ""
    /\ console' = Render(streamingEffect(
                     [console EXCEPT !.isStreaming = ~@, !.last = "pause"]))
    /\ UNCHANGED <<gateVars, lastEvent, registry, toolCall, panel, timeline, runbook>>

\* the user edits the filter box: setLocalFilter(e.target.value)
EditFilter(f) ==
    /\ console.podName # ""
    /\ f # console.localFilter
    /\ console' = Render([console EXCEPT !.localFilter = f, !.last = "filter"])
    /\ UNCHANGED <<gateVars, lastEvent, registry, toolCall, panel, timeline, runbook>>

\* the .* button: setIsRegex(!isRegex)
ToggleRegex ==
    /\ console.podName # ""
    /\ console' = Render([console EXCEPT !.isRegex = ~@, !.last = "regex"])
    /\ UNCHANGED <<gateVars, lastEvent, registry, toolCall, panel, timeline, runbook>>

\* a click on the line with this index of the filtered list
SelectLine(index) ==
    /\ console.podName # ""
    /\ index < Len(filteredLogs(console))
    /\ console' = Render([console EXCEPT !.selectedLine = IF @ = index THEN -1 ELSE index,
                                         !.last = "select"])
    /\ UNCHANGED <<gateVars, lastEvent, registry, toolCall, panel, timeline, runbook>>

\* the selected line context is rendered: a line is selected and the
\* filtered list has an entry at its index
ShowsSelection(c) ==
    c.podName # "" /\ c.selectedLine # -1 /\ c.selectedLine < Len(filteredLogs(c))

\* the entry the selection designates (indices are 0-based in the source)
SelectedEntry(c) == filteredLogs(c)[c.selectedLine + 1]

\* the Clear button of the selected line context
ClearSelection ==
    /\ ShowsSelection(console)
    /\ console' = Render([console EXCEPT !.selectedLine = -1, !.last = "clear"])
    /\ UNCHANGED <<gateVars, lastEvent, registry, toolCall, panel, timeline, runbook>>

\* 'Invalid regex: ...' below the filter box
ShowsInvalidRegex == console.podName # "" /\ console.regexError

NextConsole ==
    \/ \E podName \in Pods : PodChanges(podName)
    \/ Tick
    \/ TogglePause
    \/ \E f \in FilterInputs : EditFilter(f)
    \/ ToggleRegex
    \/ \E index \in 0..MaxLine : SelectLine(index)
    \/ ClearSelection

SpecConsole == Init /\ [][NextConsole]_vars

\* C24: the log buffer never holds more than 51 entries, and a tick leaves
\* a suffix of the old buffer, in its order, followed by one new entry.
C24_BufferAtMost51 ==
    /\ [](Len(console.logs) <= 51)
    /\ [][console'.last = "tick"
            => \E k \in 0..Len(console.logs) :
                  /\ Len(console'.logs) = Len(console.logs) - k + 1
                  /\ \A i \in 1..(Len(console.logs) - k) :
                        console'.logs[i] = console.logs[k + i]
                  /\ \A i \in DOMAIN console.logs :
                        console.logs[i] # console'.logs[Len(console'.logs)]]_vars

C24_Witness ==
    /\ console.last = "tick"
    /\ Len(console.logs) = 51
    /\ console.logs[1].n = 2

\* C25 as stated: while the console is paused the log buffer does not
\* change, and there is never more than one ticker: one while the console
\* streams, none while it is paused.
C25_PausedBufferUnchanged ==
    /\ [][~console.isStreaming => console'.logs = console.logs]_vars
    /\ [](console.tickers = IF console.isStreaming /\ console.podName # "" THEN 1 ELSE 0)

\* C25 amended: while the console is paused and its pod stays the same the
\* log buffer does not change (a change of pod replaces the buffer, paused
\* or not), and there is never more than one ticker.
C25_PausedBufferUnchangedSamePod ==
    /\ [][(~console.isStreaming /\ console'.podName = console.podName)
            => console'.logs = console.logs]_vars
    /\ [][(~console.isStreaming /\ console'.podName # console.podName)
            => console'.logs = generateMockLogs(console'.podName)]_vars
    /\ [](console.tickers = IF console.isStreaming /\ console.podName # "" THEN 1 ELSE 0)

C25_Witness ==
    /\ console.last = "pause" /\ console.isStreaming
    /\ console.tickers = 1
    /\ Len(console.logs) > 25

\* C26: 'Invalid regex' is shown exactly when regex mode is on and the
\* filter is non-empty and no regular expression, and then every entry of
\* the buffer is listed.
C26_InvalidRegexShownExactly ==
    /\ ShowsInvalidRegex
          <=> (console.isRegex /\ console.localFilter # ""
                 /\ ~ValidRegex(console.localFilter))
    /\ ShowsInvalidRegex => filteredLogs(console) = console.logs

\* C27: a selected line designates the same entry after a tick, an edit of
\* the filter or a change of the regex mode.
C27_SelectionKeepsItsEntry ==
    [][(ShowsSelection(console) /\ console'.last \in {"tick", "filter", "regex"})
        => /\ ShowsSelection(console')
           /\ SelectedEntry(console') = SelectedEntry(console)]_vars

====
